---------------------------- MODULE Spec2Model ----------------------------
(***************************************************************************)
(* Model of the economic-data updater (src/update_data.py): the cleaning   *)
(* pass clean_data_file, the merge / sort / clean sequence of the update   *)
(* functions, and the year-over-year derivation calculate_yoy_returns.     *)
(*                                                                         *)
(* Representation.                                                         *)
(*  - A date string "YYYY-MM-DD" is the tuple <<year, month, day>>.  The   *)
(*    code compares and sorts the strings; zero-padded ISO strings compare *)
(*    as the tuples do lexicographically (DateLess).  strptime is the      *)
(*    conversion of the tuple to a day number (DayNumber).                 *)
(*  - A value is an integer (the code holds floats).  A year-over-year     *)
(*    value, which the code rounds to 2 decimals, is held in hundredths of *)
(*    a percent: 2000 stands for 20.0.                                     *)
(*  - Sequences are 1-based; the code's index i is the model's i + 1.      *)
(*  - closest_idx = None is the index NoIdx, which no list position has.   *)
(***************************************************************************)
EXTENDS Integers, Sequences, FiniteSets, TLC

VARIABLES
    pc,             \* position of the run
    filename,       \* the series file name given to clean_data_file
    data,           \* the observations read from the series file
    result,         \* what the first clean_data_file call returned and printed
    recleaned,      \* clean_data_file applied to its own output
    existing_data,  \* update path: the cleaned persisted observations
    new_data,       \* update path: the fetched observations
    updated_data,   \* update path: the merged, sorted and cleaned observations
    price_data,     \* calculate_yoy_returns: its argument
    sorted_data,    \* calculate_yoy_returns: sorted(price_data)
    rows,           \* calculate_yoy_returns: the locals of each iteration i
    yoy_data,       \* calculate_yoy_returns: the returned list
    files,          \* the data directory: file name -> file
    tmp_file,       \* write_json: the file at temp_filepath
    env,            \* what the run finds: installed packages, API key, CSV file
    before,         \* the data directory when the current function was called
    call            \* what the function that ran last fetched and wrote

vars == <<pc, filename, data, result, recleaned, existing_data, new_data,
          updated_data, price_data, sorted_data, rows, yoy_data,
          files, tmp_file, env, before, call>>

fsVars == <<files, tmp_file, env, before, call>>

cleanVars == <<filename, data, result, recleaned, existing_data, new_data,
               updated_data>>

yoyVars == <<price_data, sorted_data, rows, yoy_data>>

\* The default (None, None) of value_ranges.get; never compared with a number.
None == "None"

\* A file: whether the path exists, the observations its JSON text holds, and
\* whether the text is cut short (a write that did not finish).
Absent == [exists |-> FALSE, content |-> <<>>, torn |-> FALSE]

FileOf(items) == [exists |-> TRUE, content |-> items, torn |-> FALSE]

\* The state of the data directory in the specifications that touch no file.
NoFileSystem ==
    /\ files = <<>>
    /\ tmp_file = Absent
    /\ env = <<>>
    /\ before = <<>>
    /\ call = <<>>

-----------------------------------------------------------------------------
(* Bounds of the model.                                                    *)

\* Longest observation list drawn for the cleaning pass.
MaxLen == 3

\* Longest price list drawn for the year-over-year derivation.
MaxPrices == 3

\* All sequences over S of length at most n.
SeqsUpTo(S, n) == UNION {[1..k -> S] : k \in 0..n}

-----------------------------------------------------------------------------
(* Dates.                                                                  *)

\* String comparison of two "YYYY-MM-DD" dates.
DateLess(a, b) ==
    \/ a[1] < b[1]
    \/ a[1] = b[1] /\ a[2] < b[2]
    \/ a[1] = b[1] /\ a[2] = b[2] /\ a[3] < b[3]

DateLeq(a, b) == a = b \/ DateLess(a, b)

\* list.sort(key=lambda x: x["date"]) / sorted(..., key=...): a stable sort.
\* InsertStable puts x after every element whose date is <= x's date.
InsertStable(t, x) ==
    LET n == Cardinality({i \in 1..Len(t) : DateLeq(t[i].date, x.date)})
    IN  SubSeq(t, 1, n) \o <<x>> \o SubSeq(t, n + 1, Len(t))

\* A caller that leaves the list in the order it was combined.
SortByDate_Unsorted(s) == s

RECURSIVE SortByDate(_)
SortByDate(s) ==
    IF s = <<>> THEN <<>>
    ELSE InsertStable(SortByDate(SubSeq(s, 1, Len(s) - 1)), s[Len(s)])

-----------------------------------------------------------------------------
(* clean_data_file.                                                        *)

\* The value_ranges table: file name -> <<min_val, max_val>>.
value_ranges ==
    [n \in {"ism_manufacturing.json", "ism_services.json", "global_m2.json",
            "bitcoin_price.json", "nasdaq.json", "unemployment_rate.json",
            "yield_curve.json"} |->
        CASE n = "ism_manufacturing.json" -> <<0, 100>>
          [] n = "ism_services.json"      -> <<0, 100>>
          [] n = "global_m2.json"         -> <<1000, 30000>>
          [] n = "bitcoin_price.json"     -> <<0, 150000>>
          [] n = "nasdaq.json"            -> <<0, 25000>>
          [] n = "unemployment_rate.json" -> <<0, 20>>
          [] n = "yield_curve.json"       -> <<-5, 5>>]

\* value_ranges.get(filename, (None, None))
RangeOf(name) ==
    IF name \in DOMAIN value_ranges THEN value_ranges[name] ELSE <<None, None>>

\* "if min_val is None or max_val is None": the table holds no None, so this is
\* the default of .get, taken exactly when the file name is not a key.
NoRange(name) == name \notin DOMAIN value_ranges

\* "for item in data": the items the pass visits, in order.
LoopItems_SkipFirst(items) == IF items = <<>> THEN <<>> ELSE Tail(items)

LoopItems(items) == items

\* "if item["date"] in seen_dates"
IsDuplicate_Never(item, seen_dates) == FALSE

IsDuplicate(item, seen_dates) == item.date \in seen_dates

\* "if value < min_val or value > max_val"
IsOutlier_Inclusive(value, min_val, max_val) == value <= min_val \/ value >= max_val

IsOutlier(value, min_val, max_val) == value < min_val \/ value > max_val

\* The state of the pass before any item: nothing kept, nothing counted.
EmptyPass ==
    [cleaned_data |-> <<>>, seen_dates |-> {}, outliers_removed |-> 0,
     duplicates_removed |-> 0, printed |-> <<>>]

\* One iteration of the loop without a range: keep the first of each date.
StepNoRange(st, item) ==
    IF item.date \notin st.seen_dates
    THEN [st EXCEPT !.cleaned_data = Append(@, item),
                    !.seen_dates = @ \cup {item.date}]
    ELSE [st EXCEPT !.duplicates_removed = @ + 1]

\* A loop body that records the date of every first occurrence, kept or not.
StepRange_OutlierReservesDate(st, item, min_val, max_val) ==
    IF item.date \in st.seen_dates
    THEN [st EXCEPT !.duplicates_removed = @ + 1]
    ELSE IF IsOutlier(item.value, min_val, max_val)
    THEN [st EXCEPT !.outliers_removed = @ + 1,
                    !.printed = Append(@, item),
                    !.seen_dates = @ \cup {item.date}]
    ELSE [st EXCEPT !.cleaned_data = Append(@, item),
                    !.seen_dates = @ \cup {item.date}]

\* One iteration of the loop with a range: the duplicate test comes first, then
\* the range test; only a kept item's date enters seen_dates.  printed holds
\* the "Removed outlier: date = value" lines.
StepRange(st, item, min_val, max_val) ==
    IF IsDuplicate(item, st.seen_dates)
    THEN [st EXCEPT !.duplicates_removed = @ + 1]
    ELSE IF IsOutlier(item.value, min_val, max_val)
    THEN [st EXCEPT !.outliers_removed = @ + 1,
                    !.printed = Append(@, item)]
    ELSE [st EXCEPT !.cleaned_data = Append(@, item),
                    !.seen_dates = @ \cup {item.date}]

RECURSIVE PassFrom(_, _, _)
PassFrom(st, items, name) ==
    IF items = <<>> THEN st
    ELSE PassFrom(IF NoRange(name)
                  THEN StepNoRange(st, Head(items))
                  ELSE StepRange(st, Head(items), RangeOf(name)[1], RangeOf(name)[2]),
                  Tail(items), name)

\* The whole pass: the returned list with the counters and the printed lines.
CleanPass(items, name) == PassFrom(EmptyPass, LoopItems(items), name)

clean_data_file(items, name) == CleanPass(items, name).cleaned_data

-----------------------------------------------------------------------------
(* The update path shared by update_bitcoin_price, update_fred_data and    *)
(* get_nasdaq_data: combine, sort by date, clean.                          *)

\* "updated_data = existing_data + new_data"
Combine_NewFirst(existing, incoming) == incoming \o existing

Combine(existing, incoming) == existing \o incoming

MergeSortClean(existing, incoming, name) ==
    clean_data_file(SortByDate(Combine(existing, incoming)), name)

-----------------------------------------------------------------------------
(* Inputs of the cleaning specification.                                   *)

CleanDates == {<<2024, 1, 1>>, <<2024, 2, 1>>, <<2024, 3, 1>>}

CleanValues == {-1, 0, 50, 100, 150}

CleanObservations == [date : CleanDates, value : CleanValues]

\* A ranged series, a series whose range has a negative minimum, and a file
\* name that value_ranges does not hold.
FileNames == {"ism_manufacturing.json", "yield_curve.json", "bitcoin_yoy.json"}

InitClean ==
    /\ pc = "start"
    /\ filename \in FileNames
    /\ data \in SeqsUpTo(CleanObservations, MaxLen)
    /\ result = EmptyPass
    /\ recleaned = <<>>
    /\ existing_data = <<>>
    /\ new_data = <<>>
    /\ updated_data = <<>>
    /\ price_data = <<>>
    /\ sorted_data = <<>>
    /\ rows = <<>>
    /\ yoy_data = <<>>
    /\ NoFileSystem

\* A call clean_data_file(data, filename) on what was read from the file.
CleanCall ==
    /\ pc = "start"
    /\ result' = CleanPass(data, filename)
    /\ pc' = "cleaned"
    /\ UNCHANGED <<filename, data, recleaned, existing_data, new_data,
                   updated_data>>
    /\ UNCHANGED yoyVars
    /\ UNCHANGED fsVars

\* A second call on the first call's return value.
CleanAgain ==
    /\ pc = "cleaned"
    /\ recleaned' = clean_data_file(result.cleaned_data, filename)
    /\ pc' = "recleaned"
    /\ UNCHANGED <<filename, data, result, existing_data, new_data,
                   updated_data>>
    /\ UNCHANGED yoyVars
    /\ UNCHANGED fsVars

\* An update: the first k observations are the persisted file, the rest is
\* what the fetch returned.  The persisted part is cleaned, the fetched part
\* is appended, the list is sorted by date and cleaned again.
UpdateSeries ==
    /\ pc = "start"
    /\ \E k \in 0..Len(data) :
         /\ existing_data' = clean_data_file(SubSeq(data, 1, k), filename)
         /\ new_data' = SubSeq(data, k + 1, Len(data))
    /\ updated_data' = MergeSortClean(existing_data', new_data', filename)
    /\ pc' = "merged"
    /\ UNCHANGED <<filename, data, result, recleaned>>
    /\ UNCHANGED yoyVars
    /\ UNCHANGED fsVars

NextClean == CleanCall \/ CleanAgain \/ UpdateSeries

Spec == InitClean /\ [][NextClean]_vars

-----------------------------------------------------------------------------
(* calculate_yoy_returns.                                                  *)

IsLeap(y) == (y % 4 = 0 /\ y % 100 # 0) \/ y % 400 = 0

DaysInMonth(y, m) ==
    CASE m \in {1, 3, 5, 7, 8, 10, 12} -> 31
      [] m \in {4, 6, 9, 11}           -> 30
      [] OTHER                         -> IF IsLeap(y) THEN 29 ELSE 28

DaysBeforeMonth(y, m) ==
    LET F[k \in 1..12] == IF k = 1 THEN 0 ELSE F[k - 1] + DaysInMonth(y, k - 1)
    IN  F[m]

\* datetime.strptime(date, "%Y-%m-%d"), as the proleptic Gregorian day number
\* that datetime subtraction works on.
DayNumber(d) ==
    LET y == d[1] - 1
    IN  365 * y + (y \div 4) - (y \div 100) + (y \div 400)
        + DaysBeforeMonth(d[1], d[2]) + d[3]

\* current_date - relativedelta(years=1): the same month and day one year
\* earlier, the day clamped to the last day of that month (Feb 29 -> Feb 28).
SubtractYear(d) ==
    LET last == DaysInMonth(d[1] - 1, d[2])
    IN  <<d[1] - 1, d[2], IF d[3] > last THEN last ELSE d[3]>>

\* abs(past_date - target_date), in days.
DateDiff(a, b) ==
    LET n == DayNumber(a) - DayNumber(b) IN IF n < 0 THEN -n ELSE n

\* "closest_idx = None"
NoIdx == 0

\* "min_diff = datetime.timedelta(days=365)"
InitialMinDiff == 365

\* "min_diff <= datetime.timedelta(days=45)"
WindowDays == 45

\* "if diff < min_diff"
Closer_OrEqual(diff, min_diff) == diff <= min_diff

Closer(diff, min_diff) == diff < min_diff

\* The inner loop over sorted_data[:i] from position j on.
RECURSIVE ScanFrom(_, _, _, _, _)
ScanFrom(st, sorted, target, j, i) ==
    IF j >= i THEN st
    ELSE LET diff == DateDiff(sorted[j].date, target)
         IN  ScanFrom(IF Closer(diff, st.min_diff)
                      THEN [closest_idx |-> j, min_diff |-> diff]
                      ELSE st,
                      sorted, target, j + 1, i)

\* A scan that takes the nearest of the whole list, with no slice and no
\* starting distance.
ClosestPast_NearestOfAll(sorted, i) ==
    LET target == SubtractYear(sorted[i].date)
        j == CHOOSE a \in 1..Len(sorted) :
                 \A b \in 1..Len(sorted) :
                     \/ DateDiff(sorted[a].date, target) < DateDiff(sorted[b].date, target)
                     \/ /\ DateDiff(sorted[a].date, target) = DateDiff(sorted[b].date, target)
                        /\ a <= b
    IN  [closest_idx |-> j, min_diff |-> DateDiff(sorted[j].date, target)]

\* closest_idx and min_diff after the inner loop of iteration i.
ClosestPast(sorted, i) ==
    ScanFrom([closest_idx |-> NoIdx, min_diff |-> InitialMinDiff], sorted,
             SubtractYear(sorted[i].date), 1, i)

\* "closest_idx is not None and min_diff <= datetime.timedelta(days=45)"
Accepted_Exclusive(c) == c.closest_idx # NoIdx /\ c.min_diff < WindowDays

Accepted(c) == c.closest_idx # NoIdx /\ c.min_diff <= WindowDays

\* n / d rounded to the nearest integer, a tie to the even one (d > 0).
RoundHalfEven(n, d) ==
    LET q == n \div d
        r == n - q * d
    IN  IF 2 * r < d THEN q
        ELSE IF 2 * r > d THEN q + 1
        ELSE IF q % 2 = 0 THEN q ELSE q + 1

\* round(((current_value / past_value) - 1) * 100, 2), in hundredths of a
\* percent, for past_value > 0.  The code rounds a binary float; the model
\* rounds the exact quotient.
YoYReturn_Inverted(current_value, past_value) ==
    IF current_value > 0
    THEN RoundHalfEven((past_value - current_value) * 10000, current_value)
    ELSE 0

YoYReturn(current_value, past_value) ==
    RoundHalfEven((current_value - past_value) * 10000, past_value)

\* Iteration i of the outer loop: the locals, and the entry appended if any.
YoYRow(sorted, i) ==
    LET c == ClosestPast(sorted, i)
        past_value == sorted[c.closest_idx].value
        emit == IF Accepted(c) THEN past_value > 0 ELSE FALSE
    IN  [closest_idx |-> c.closest_idx,
         min_diff |-> c.min_diff,
         emitted |-> emit,
         entry |-> IF emit
                   THEN <<[date |-> sorted[i].date,
                           value |-> YoYReturn(sorted[i].value, past_value)]>>
                   ELSE <<>>]

YoYRows(sorted) == [i \in 1..Len(sorted) |-> YoYRow(sorted, i)]

\* The entries of the rows, in the order of the iterations.
RowEntries(rs) ==
    LET F[k \in 0..Len(rs)] == IF k = 0 THEN <<>> ELSE F[k - 1] \o rs[k].entry
    IN  F[Len(rs)]

calculate_yoy_returns(prices) == RowEntries(YoYRows(SortByDate(prices)))

-----------------------------------------------------------------------------
(* Inputs of the year-over-year specification.                             *)

YoYDates ==
    {<<2023, 1, 1>>, <<2023, 1, 29>>, <<2024, 1, 15>>, <<2024, 2, 15>>,
     <<2024, 2, 16>>, <<2024, 3, 1>>}

YoYValues == {-100, 0, 100, 120}

PriceObservations == [date : YoYDates, value : YoYValues]

InitYoY ==
    /\ pc = "start"
    /\ price_data \in SeqsUpTo(PriceObservations, MaxPrices)
    /\ sorted_data = <<>>
    /\ rows = <<>>
    /\ yoy_data = <<>>
    /\ filename = "bitcoin_price.json"
    /\ data = <<>>
    /\ result = EmptyPass
    /\ recleaned = <<>>
    /\ existing_data = <<>>
    /\ new_data = <<>>
    /\ updated_data = <<>>
    /\ NoFileSystem

\* A call calculate_yoy_returns(price_data).
CalculateYoY ==
    /\ pc = "start"
    /\ sorted_data' = SortByDate(price_data)
    /\ rows' = YoYRows(sorted_data')
    /\ yoy_data' = calculate_yoy_returns(price_data)
    /\ pc' = "done"
    /\ UNCHANGED price_data
    /\ UNCHANGED cleanVars
    /\ UNCHANGED fsVars

NextYoY == CalculateYoY

SpecYoY == InitYoY /\ [][NextYoY]_vars

-----------------------------------------------------------------------------
(* write_json: the temporary file, then the rename.                        *)

\* Longest list drawn for a write.
MaxWriteLen == 2

\* The two paths of a write: w.final is the file at filepath, w.tmp the file
\* at temp_filepath.

\* "with open(temp_filepath, 'w') as f": the temporary file is created, or cut
\* to no text at all.
OpenTemp(w) ==
    [w EXCEPT !.tmp = [exists |-> TRUE, content |-> <<>>, torn |-> TRUE]]

\* A dump into the file at filepath itself.
DumpInto_FinalPath(w, items, k) ==
    [w EXCEPT !.final = [exists |-> TRUE, content |-> SubSeq(items, 1, k),
                         torn |-> k < Len(items)]]

\* "json.dump(data, f, indent=2)" and the close of the file: the text of the
\* first k items reaches the temporary file; the text is whole when k is the
\* length of the list and the dump did not raise.
DumpInto(w, items, k) ==
    [w EXCEPT !.tmp = [exists |-> TRUE, content |-> SubSeq(items, 1, k),
                       torn |-> k < Len(items)]]

\* "os.replace(temp_filepath, filepath)" when filepath exists, os.rename when
\* it does not: the temporary file becomes the file at filepath in one step.
RenameTemp(w) == [final |-> w.tmp, tmp |-> Absent]

\* The except branch: "if os.path.exists(temp_filepath): os.remove(...)".
RemoveTemp(w) == IF w.tmp.exists THEN [w EXCEPT !.tmp = Absent] ELSE w

\* write_json(items, name) as a whole, on the file old at filepath: ok says
\* that no step raised.  A step that raises leaves the file at filepath as it
\* was and the except branch removes the temporary file.
WriteJson(old, items, ok) ==
    IF ok
    THEN RenameTemp(DumpInto(OpenTemp([final |-> old, tmp |-> Absent]),
                             items, Len(items))).final
    ELSE old

WriteObservations == [date : {<<2024, 1, 1>>, <<2024, 2, 1>>}, value : {50, 60}]

\* A temporary file that an earlier, interrupted write left behind.
StaleTemp == [exists |-> TRUE, content |-> <<>>, torn |-> TRUE]

InitWrite ==
    /\ pc = "w_open"
    /\ filename = "bitcoin_price.json"
    /\ data \in SeqsUpTo(WriteObservations, MaxWriteLen)
    /\ \E old \in {Absent} \cup {FileOf(c) : c \in SeqsUpTo(WriteObservations, MaxWriteLen)} :
         /\ files = (filename :> old)
         /\ before = (filename :> old)
    /\ tmp_file \in {Absent, StaleTemp}
    /\ env = <<>>
    /\ call = [raised |-> "none"]
    /\ result = EmptyPass
    /\ recleaned = <<>>
    /\ existing_data = <<>>
    /\ new_data = <<>>
    /\ updated_data = <<>>
    /\ price_data = <<>>
    /\ sorted_data = <<>>
    /\ rows = <<>>
    /\ yoy_data = <<>>

WriteUnchanged ==
    /\ UNCHANGED <<filename, data, result, recleaned, existing_data, new_data,
                   updated_data, env, before>>
    /\ UNCHANGED yoyVars

\* The two paths as write_json sees them.
Paths == [final |-> files[filename], tmp |-> tmp_file]

SetPaths(w) ==
    /\ files' = [files EXCEPT ![filename] = w.final]
    /\ tmp_file' = w.tmp

\* open(temp_filepath, 'w'): it opens the file, or raises.
WriteOpen ==
    /\ pc = "w_open"
    /\ \/ /\ SetPaths(OpenTemp(Paths))
          /\ pc' = "w_dump"
          /\ UNCHANGED call
       \/ /\ pc' = "w_except"
          /\ call' = [raised |-> "open"]
          /\ UNCHANGED <<files, tmp_file>>
    /\ WriteUnchanged

\* json.dump and the close: all of the text is written, or the dump raises
\* after the text of k items.
WriteDump ==
    /\ pc = "w_dump"
    /\ \/ /\ SetPaths(DumpInto(Paths, data, Len(data)))
          /\ pc' = "w_rename"
          /\ UNCHANGED call
       \/ /\ \/ \E k \in 0..(Len(data) - 1) : SetPaths(DumpInto(Paths, data, k))
             \/ UNCHANGED <<files, tmp_file>>
          /\ pc' = "w_except"
          /\ call' = [raised |-> "dump"]
    /\ WriteUnchanged

\* os.replace / os.rename: it renames, or raises and changes nothing.
WriteRename ==
    /\ pc = "w_rename"
    /\ \/ /\ SetPaths(RenameTemp(Paths))
          /\ pc' = "w_done"
          /\ UNCHANGED call
       \/ /\ pc' = "w_except"
          /\ call' = [raised |-> "rename"]
          /\ UNCHANGED <<files, tmp_file>>
    /\ WriteUnchanged

\* The except branch.
WriteExcept ==
    /\ pc = "w_except"
    /\ SetPaths(RemoveTemp(Paths))
    /\ pc' = "w_failed"
    /\ UNCHANGED call
    /\ WriteUnchanged

\* The process stops between two steps of the write.
WriteCrash ==
    /\ pc \in {"w_open", "w_dump", "w_rename", "w_except"}
    /\ pc' = "crashed"
    /\ UNCHANGED <<files, tmp_file, call>>
    /\ WriteUnchanged

NextWrite == WriteOpen \/ WriteDump \/ WriteRename \/ WriteExcept \/ WriteCrash

SpecWrite == InitWrite /\ [][NextWrite]_vars

-----------------------------------------------------------------------------
(* Properties of write_json (SpecWrite).                                   *)

\* C12: at every step of write_json, and when a step raises or the process
\* stops at any of them, the file at the final path is the whole previous file
\* (or still absent) or the whole new content, never a cut text; after a
\* caught failure the final file is as it was and the temporary file is gone.
C12_WriteIsAtomic ==
    /\ files[filename] \in {before[filename], FileOf(data)}
    /\ ~files[filename].torn
    /\ pc \in {"w_open", "w_dump", "w_rename", "w_except", "w_failed"}
           => files[filename] = before[filename]
    /\ pc = "w_failed" => ~tmp_file.exists
    /\ pc = "w_done" => files[filename] = FileOf(data) /\ ~tmp_file.exists

\* C12 witness: the dump raised after part of the text; the except branch ran;
\* the previous file, which differs from the new content, is in place and the
\* temporary file is removed.
C12_Witness ==
    /\ pc = "w_failed"
    /\ call.raised = "dump"
    /\ before[filename].exists
    /\ before[filename].content # <<>>
    /\ before[filename].content # data
    /\ Len(data) = 2
    /\ files[filename] = before[filename]
    /\ ~tmp_file.exists

-----------------------------------------------------------------------------
(* The merge of the ISM CSV file into ism_manufacturing.json, as both      *)
(* update_ism_manufacturing_from_csv and update_ism_data do it.            *)

\* Longest JSON list and longest CSV file drawn for the ISM merge.
MaxIsmLen == 2

\* 0.01, the difference above which a CSV value replaces a JSON value, in
\* hundredths.
CsvTolerance == 1

Abs(n) == IF n < 0 THEN -n ELSE n

\* strptime(period, '%Y-%m') then strftime('%Y-%m-01'): a CSV period <<y, m>>
\* becomes the date of the first day of that month.
FormattedDate(period) == <<period[1], period[2], 1>>

\* existing_dict = {item['date']: item['value'] for item in existing_data}:
\* for a date that occurs more than once the last item's value stays.
DictDates(items) == {items[i].date : i \in 1..Len(items)}

DictValue(items, d) ==
    LET at == {i \in 1..Len(items) : items[i].date = d}
        hi == CHOOSE i \in at : \A j \in at : j <= i
    IN  items[hi].value

\* "for item in existing_data: if item['date'] == formatted_date: ... break":
\* the first item with that date takes the CSV value.
UpdateFirst(items, d, v) ==
    LET at == {i \in 1..Len(items) : items[i].date = d}
    IN  IF at = {} THEN items
        ELSE LET lo == CHOOSE i \in at : \A j \in at : i <= j
             IN  [items EXCEPT ![lo].value = v]

\* One CSV row.  dictItems is the list existing_dict was built from: the
\* dictionary is built once, before the loop, and no row changes it.
CsvRow(st, dictItems, row) ==
    LET d == FormattedDate(row.period)
    IN  IF d \notin DictDates(dictItems)
        THEN [st EXCEPT !.new_entries = Append(@, [date |-> d, value |-> row.value])]
        ELSE IF 100 * Abs(row.value - DictValue(dictItems, d)) > CsvTolerance
             THEN [st EXCEPT !.existing_data = UpdateFirst(@, d, row.value),
                             !.updated_entries = @ + 1]
             ELSE st

RECURSIVE CsvLoop(_, _, _, _)
CsvLoop(st, dictItems, csv_rows, i) ==
    IF i > Len(csv_rows) THEN st
    ELSE CsvLoop(CsvRow(st, dictItems, csv_rows[i]), dictItems, csv_rows, i + 1)

\* The loop over the CSV rows, then "existing_data.extend(new_entries)" and
\* "existing_data.sort(key=lambda x: x['date'])".
IsmCsvMerge(items, csv_rows) ==
    LET st == CsvLoop([existing_data |-> items, new_entries |-> <<>>,
                       updated_entries |-> 0], items, csv_rows, 1)
    IN  SortByDate(st.existing_data \o st.new_entries)

IsmPeriods == {<<2024, 1>>, <<2024, 2>>}
IsmValues == {50, 52}
IsmObservations == [date : {FormattedDate(p) : p \in IsmPeriods}, value : IsmValues]
IsmCsvRows == [period : IsmPeriods, value : IsmValues]

\* update_ism_data.py run in a directory where data/ism_manufacturing.json and
\* data/ISM-pmi-pm.csv exist.  The JSON file holds a list the program wrote
\* earlier or that was put there by hand.
InitIsm ==
    /\ pc = "start"
    /\ filename = "ism_manufacturing.json"
    /\ \E items \in SeqsUpTo(IsmObservations, MaxIsmLen) :
         /\ files = (filename :> FileOf(items))
         /\ before = (filename :> FileOf(items))
    /\ \E csv_rows \in SeqsUpTo(IsmCsvRows, MaxIsmLen) : env = [csv |-> csv_rows]
    /\ tmp_file = Absent
    /\ call = <<>>
    /\ data = <<>>
    /\ result = EmptyPass
    /\ recleaned = <<>>
    /\ existing_data = <<>>
    /\ new_data = <<>>
    /\ updated_data = <<>>
    /\ price_data = <<>>
    /\ sorted_data = <<>>
    /\ rows = <<>>
    /\ yoy_data = <<>>

\* update_ism_manufacturing_from_csv: read the JSON, merge the CSV, sort, and
\* write the list straight to the JSON path.
UpdateIsmManufacturingFromCsv ==
    /\ pc = "start"
    /\ existing_data' = files[filename].content
    /\ updated_data' = IsmCsvMerge(files[filename].content, env.csv)
    /\ files' = [files EXCEPT ![filename] = FileOf(updated_data')]
    /\ pc' = "done"
    /\ UNCHANGED <<filename, data, result, recleaned, new_data, tmp_file, env,
                   before, call>>
    /\ UNCHANGED yoyVars

NextIsm == UpdateIsmManufacturingFromCsv

SpecIsm == InitIsm /\ [][NextIsm]_vars

-----------------------------------------------------------------------------
(* main: the files of data/ and the functions main calls, in its order.    *)

\* Longest list drawn for a file of data/ before the run.
MaxFileLen == 2

\* Longest batch a source (yfinance, FRED) returns for one series.
MaxFetch == 1

\* data_files of clean_all_data_files.
CleanedFiles ==
    {"bitcoin_price.json", "global_m2.json", "ism_manufacturing.json",
     "ism_services.json", "nasdaq.json", "unemployment_rate.json",
     "yield_curve.json"}

\* data_files of check_data_integrity.
IntegrityFiles == CleanedFiles \cup {"bitcoin_yoy.json", "nasdaq_yoy.json"}

\* Every file of data/ that main reads or writes.
DataFiles == IntegrityFiles \cup {"nasdaq_index.json"}

\* series_mapping of update_fred_data: the file names, in the order of the dict.
series_mapping == <<"global_m2.json", "unemployment_rate.json", "yield_curve.json">>

FredFiles == {series_mapping[i] : i \in 1..Len(series_mapping)}

\* read_existing_json: the list it returns.  A file that is absent and a file
\* whose text does not parse both give [].
ReadItems(f) == IF f.exists /\ ~f.torn THEN f.content ELSE <<>>

\* read_existing_json: the file it leaves.  A file whose text does not parse
\* is renamed to <name>.bak, so nothing is left at its path.
AfterRead(f) == IF f.exists /\ f.torn THEN Absent ELSE f

\* check_data_integrity on one file: a file that parses is left alone; one
\* that does not is renamed to <name>.bak, and is written again at its path
\* only if its text with "]" appended parses (repaired).
CheckFile(f, repaired) ==
    IF f.exists /\ f.torn
    THEN IF repaired THEN FileOf(f.content) ELSE Absent
    ELSE f

check_data_integrity(fs, repaired) ==
    [n \in DOMAIN fs |->
        IF n \in IntegrityFiles THEN CheckFile(fs[n], repaired[n]) ELSE fs[n]]

\* clean_all_data_files: every listed file that exists is read, cleaned and
\* written back; oks[n] says that write_json did not fail for n.
clean_all_data_files(fs, oks) ==
    [n \in DOMAIN fs |->
        IF n \in CleanedFiles /\ fs[n].exists
        THEN WriteJson(AfterRead(fs[n]), clean_data_file(ReadItems(fs[n]), n), oks[n])
        ELSE fs[n]]

\* max(item["date"] for item in existing_data)
LatestDate(items) ==
    CHOOSE d \in DictDates(items) : \A e \in DictDates(items) : DateLeq(e, d)

\* strptime(latest_date) + timedelta(days=1)
NextDay(d) ==
    IF d[3] < DaysInMonth(d[1], d[2]) THEN <<d[1], d[2], d[3] + 1>>
    ELSE IF d[2] < 12 THEN <<d[1], d[2] + 1, 1>>
    ELSE <<d[1] + 1, 1, 1>>

\* start_date of update_bitcoin_price: the day after the latest date, or
\* "2010-07-01" when there is no existing data.
BitcoinStartDate(items) ==
    IF items # <<>> THEN NextDay(LatestDate(items)) ELSE <<2010, 7, 1>>

\* "if start_date >= end_date"
UpToDate(start_date, end_date) == ~DateLess(start_date, end_date)

\* What a source does for one series: o.kind is "empty" (an empty result),
\* "raised" (the fetch or the processing raises) or "data" (o.batch is the
\* list new_data built from the result); o.ok says that write_json does not
\* fail.

\* An update that also writes the cleaned existing data when nothing arrived.
UpdateFile_WritesPreClean(f, name, o) ==
    WriteJson(AfterRead(f),
              MergeSortClean(clean_data_file(ReadItems(f), name),
                             IF o.kind = "data" THEN o.batch ELSE <<>>, name),
              o.ok)

\* The part update_bitcoin_price, the loop body of update_fred_data and
\* get_nasdaq_data share: read, clean in memory, fetch; on an empty result or
\* an exception stop; else combine, sort, clean and write.
UpdateFile(f, name, o) ==
    IF o.kind = "data"
    THEN WriteJson(AfterRead(f),
                   MergeSortClean(clean_data_file(ReadItems(f), name), o.batch, name),
                   o.ok)
    ELSE AfterRead(f)

\* update_bitcoin_price.  envr.has_yfinance is HAS_YFINANCE; today is
\* datetime.now() as a date.
update_bitcoin_price(f, envr, today, o) ==
    IF ~envr.has_yfinance THEN f
    ELSE IF UpToDate(BitcoinStartDate(clean_data_file(ReadItems(f), "bitcoin_price.json")),
                     today)
         THEN AfterRead(f)
         ELSE UpdateFile(f, "bitcoin_price.json", o)

\* A loop over series_mapping that ends at the first series that raises.
RECURSIVE FredLoop_StopsAtRaise(_, _, _)
FredLoop_StopsAtRaise(fs, os, i) ==
    IF i > Len(series_mapping) THEN fs
    ELSE LET n == series_mapping[i]
         IN  IF os[n].kind = "raised"
             THEN [fs EXCEPT ![n] = AfterRead(@)]
             ELSE FredLoop_StopsAtRaise([fs EXCEPT ![n] = UpdateFile(@, n, os[n])],
                                        os, i + 1)

\* "for series_id, filename in series_mapping.items()": the try is inside the
\* loop body, and an empty result continues with the next series.
RECURSIVE FredLoop(_, _, _)
FredLoop(fs, os, i) ==
    IF i > Len(series_mapping) THEN fs
    ELSE FredLoop([fs EXCEPT ![series_mapping[i]] =
                        UpdateFile(@, series_mapping[i], os[series_mapping[i]])],
                  os, i + 1)

\* update_fred_data.  envr.fred_configured says that fredapi is installed and
\* FRED_API_KEY is set.  os[n] is what FRED does for the series of file n; a
\* result whose values are all NaN is "data" with an empty batch.
update_fred_data(fs, envr, os) ==
    IF ~envr.fred_configured THEN fs ELSE FredLoop(fs, os, 1)

\* update_ism_data.  With the CSV file present: read the JSON, merge the CSV,
\* sort, clean, write, return; a row that does not parse raises (csv_raises)
\* and nothing is written.  The Trading Economics branch and the fallback
\* write no file.
update_ism_data(f, envr, csv_raises, ok) ==
    IF ~envr.csv.exists THEN f
    ELSE IF csv_raises THEN AfterRead(f)
    ELSE WriteJson(AfterRead(f),
                   clean_data_file(IsmCsvMerge(ReadItems(f), envr.csv.rows),
                                   "ism_manufacturing.json"),
                   ok)

\* get_nasdaq_data, first part: nasdaq.json is written from nasdaq_index.json
\* when the latter exists, the former does not, and the list read is not empty.
CopyNasdaqIndex(fs, ok) ==
    IF fs["nasdaq_index.json"].exists /\ ~fs["nasdaq.json"].exists
    THEN [fs EXCEPT !["nasdaq_index.json"] = AfterRead(@),
                    !["nasdaq.json"] =
                        IF ReadItems(fs["nasdaq_index.json"]) # <<>>
                        THEN WriteJson(@, ReadItems(fs["nasdaq_index.json"]), ok)
                        ELSE @]
    ELSE fs

\* get_nasdaq_data: the copy, then the update of nasdaq.json, which without
\* yfinance only reads and cleans in memory.
get_nasdaq_data(fs, envr, ok_copy, o) ==
    LET fs1 == CopyNasdaqIndex(fs, ok_copy)
    IN  [fs1 EXCEPT !["nasdaq.json"] =
            IF envr.has_yfinance THEN UpdateFile(@, "nasdaq.json", o)
            ELSE AfterRead(@)]

\* generate_yoy_returns on one price file f and its YoY file g.
YoYFile(f, g, ok) ==
    IF ReadItems(f) # <<>> THEN WriteJson(g, calculate_yoy_returns(ReadItems(f)), ok)
    ELSE g

generate_yoy_returns(fs, ok_bitcoin, ok_nasdaq) ==
    [fs EXCEPT !["bitcoin_price.json"] = AfterRead(@),
               !["nasdaq.json"] = AfterRead(@),
               !["bitcoin_yoy.json"] = YoYFile(fs["bitcoin_price.json"], @, ok_bitcoin),
               !["nasdaq_yoy.json"] = YoYFile(fs["nasdaq.json"], @, ok_nasdaq)]

-----------------------------------------------------------------------------
(* fix_m2_data.  Values are whole billions: the tables below hold the      *)
(* source's values rounded to the unit.                                    *)

AsObservations(t) ==
    [i \in 1..Len(t) |-> [date |-> <<t[i][1], t[i][2], 1>>, value |-> t[i][3]]]

\* historical_references, in the order of the dict.
historical_references ==
    AsObservations(<< <<2001, 8, 5310>>, <<2008, 7, 7787>>, <<2010, 1, 8470>>,
                      <<2015, 1, 11861>>, <<2020, 1, 15435>>, <<2020, 12, 19107>> >>)

\* recent_m2_values, after the loop that appends the historical references.
recent_m2_values ==
    AsObservations(<< <<2023, 1, 19151>>, <<2023, 2, 18930>>, <<2023, 3, 18724>>,
                      <<2023, 4, 18545>>, <<2023, 5, 18401>>, <<2023, 6, 18298>>,
                      <<2023, 7, 18246>>, <<2023, 8, 18261>>, <<2023, 9, 18356>>,
                      <<2023, 10, 18540>>, <<2023, 11, 18821>>, <<2023, 12, 19201>>,
                      <<2024, 1, 19680>>, <<2024, 2, 20258>>, <<2024, 3, 20932>>,
                      <<2024, 4, 20932>>, <<2024, 5, 21013>>, <<2024, 6, 21079>>,
                      <<2024, 7, 21094>>, <<2024, 8, 21182>>, <<2024, 9, 21252>>,
                      <<2024, 10, 21333>>, <<2024, 11, 21466>>, <<2024, 12, 21549>>,
                      <<2025, 1, 21561>> >>)
    \o historical_references

\* "existing_data[0]['value'] < 5000 and existing_data[-1]['value'] > 20000"
ScaleLow == 5000
ScaleHigh == 20000

needs_rescaling(existing) ==
    /\ existing # <<>>
    /\ existing[1].value < ScaleLow
    /\ existing[Len(existing)].value > ScaleHigh

\* "existing_data[-1]['value'] < 10000"
LastTooLow == 10000

\* "len(existing_data) > 100"
RescaleMinLen == 100

NeedsReplacement(existing) ==
    \/ existing = <<>>
    \/ existing[Len(existing)].value < LastTooLow
    \/ needs_rescaling(existing)

\* The first item of items with date d, or 0.
FirstIndex(items, d) ==
    LET at == {i \in 1..Len(items) : items[i].date = d}
    IN  IF at = {} THEN 0 ELSE CHOOSE i \in at : \A j \in at : i <= j

\* existing_date_map[d]: the position of the last item with date d, or 0.
LastIndex(items, d) ==
    LET at == {i \in 1..Len(items) : items[i].date = d}
    IN  IF at = {} THEN 0 ELSE CHOOSE i \in at : \A j \in at : j <= i

\* reference_scales: for every reference date whose first item in the
\* existing data has a positive value, the pair <<reference, existing>>.
RECURSIVE ReferenceScales(_, _)
ReferenceScales(existing, k) ==
    IF k > Len(historical_references) THEN <<>>
    ELSE LET i == FirstIndex(existing, historical_references[k].date)
         IN  (IF i # 0 /\ existing[i].value > 0
              THEN << <<historical_references[k].value, existing[i].value>> >>
              ELSE <<>>) \o ReferenceScales(existing, k + 1)

\* The sum of the fractions p[1] / p[2], as <<numerator, denominator>>.
RECURSIVE SumOfScales(_, _)
SumOfScales(ps, k) ==
    IF k > Len(ps) THEN <<0, 1>>
    ELSE LET r == SumOfScales(ps, k + 1)
         IN  <<ps[k][1] * r[2] + r[1] * ps[k][2], ps[k][2] * r[2]>>

\* The scaling factor as <<numerator, denominator>>: the average of the
\* reference scales or, without any, the last table value over the last
\* existing value.  A denominator of 0 is the ZeroDivisionError.
ScaleFactor(existing) ==
    LET ps == ReferenceScales(existing, 1)
    IN  IF ps # <<>>
        THEN <<SumOfScales(ps, 1)[1], SumOfScales(ps, 1)[2] * Len(ps)>>
        ELSE <<recent_m2_values[Len(recent_m2_values)].value,
               existing[Len(existing)].value>>

\* One table item put into a list: the first item with its date takes the
\* table value, or the item is appended.
PutFirst(items, new_item) ==
    IF FirstIndex(items, new_item.date) # 0
    THEN [items EXCEPT ![FirstIndex(items, new_item.date)].value = new_item.value]
    ELSE Append(items, new_item)

RECURSIVE PutAllFirst(_, _)
PutAllFirst(items, k) ==
    IF k > Len(recent_m2_values) THEN items
    ELSE PutAllFirst(PutFirst(items, recent_m2_values[k]), k + 1)

\* Option 1: every value scaled, then the table values put in, then sorted.
Rescaled(existing) ==
    LET s == ScaleFactor(existing)
    IN  SortByDate(PutAllFirst(
            [i \in 1..Len(existing) |->
                [existing[i] EXCEPT !.value = RoundHalfEven(@ * s[1], s[2])]], 1))

\* "Just update the recent values": a table item whose date is in
\* existing_date_map overwrites the value at the mapped position; any other
\* is appended.  The map is built before the loop from the list as read.
RECURSIVE UpdateRecent(_, _, _)
UpdateRecent(items, existing, k) ==
    IF k > Len(recent_m2_values) THEN items
    ELSE LET new_item == recent_m2_values[k]
             at == LastIndex(existing, new_item.date)
         IN  UpdateRecent(IF at # 0 THEN [items EXCEPT ![at].value = new_item.value]
                          ELSE Append(items, new_item),
                          existing, k + 1)

\* A fix that keeps the existing items and adds the fetched ones.
FixFromFred_KeepsExisting(existing, batch) == SortByDate(existing \o batch)

\* The FRED branch: the list written is the fetched series, sorted.
FixFromFred(existing, batch) == SortByDate(batch)

\* fix_m2_data.  With FRED configured o is what FRED does for M2SL ("raised",
\* or "data" with the whole series as o.batch); o.ok says that write_json does
\* not fail.  The copy to <name>.bak_<time> leaves the file as it is.
fix_m2_data(f, envr, o) ==
    LET existing == ReadItems(f)
        f1 == AfterRead(f)
    IN  IF envr.fred_configured
        THEN IF o.kind = "raised" THEN f1
             ELSE WriteJson(f1, FixFromFred(existing, o.batch), o.ok)
        ELSE IF NeedsReplacement(existing)
             THEN IF Len(existing) > RescaleMinLen
                  THEN IF ScaleFactor(existing)[2] = 0 THEN f1
                       ELSE WriteJson(f1, Rescaled(existing), o.ok)
                  ELSE WriteJson(f1, SortByDate(recent_m2_values), o.ok)
             ELSE WriteJson(f1, SortByDate(UpdateRecent(existing, existing, 1)), o.ok)

-----------------------------------------------------------------------------
(* One run of main.                                                        *)

\* The observations a series is drawn from: two values in the declared range
\* on one date, a value in range on a later date, and a value outside the
\* range.
ObservationsOf(d1, d2, a, b, c, out) ==
    {[date |-> d1, value |-> a], [date |-> d1, value |-> b],
     [date |-> d2, value |-> c], [date |-> d1, value |-> out]}

SeriesObservations(n) ==
    CASE n \in {"bitcoin_price.json", "nasdaq.json", "nasdaq_index.json"} ->
            ObservationsOf(<<2023, 1, 1>>, <<2024, 1, 1>>, 100, 120, 120, 200000)
      [] n = "global_m2.json" ->
            ObservationsOf(<<2022, 12, 1>>, <<2024, 1, 1>>, 15000, 4000, 25000, 500)
      [] n = "unemployment_rate.json" ->
            ObservationsOf(<<2024, 1, 1>>, <<2024, 2, 1>>, 4, 5, 4, 50)
      [] n = "yield_curve.json" ->
            ObservationsOf(<<2024, 1, 1>>, <<2024, 2, 1>>, 1, -1, 1, 9)
      [] OTHER ->
            ObservationsOf(<<2024, 1, 1>>, <<2024, 2, 1>>, 50, 52, 50, 150)

\* The rows ISM-pmi-pm.csv is drawn from: values in the range of the ISM
\* series for two months, and a value outside it.
CsvRowsOfRun == IsmCsvRows \cup {[period |-> <<2024, 1>>, value |-> 150]}

\* The dates datetime.now() is drawn from.
Todays == {<<2024, 1, 2>>, <<2024, 6, 1>>}

\* A run follows one file of data/: before the run only that file may exist.
TrackedFiles == CleanedFiles \cup {"nasdaq_index.json"}

\* The files the followed file's content can reach.
Followed ==
    CASE filename = "bitcoin_price.json" -> {"bitcoin_price.json", "bitcoin_yoy.json"}
      [] filename \in {"nasdaq.json", "nasdaq_index.json"} ->
            {"nasdaq.json", "nasdaq_index.json", "nasdaq_yoy.json"}
      [] OTHER -> {filename}

\* The series whose fetch results are drawn in full.
FollowedSeries == IF filename = "nasdaq_index.json" THEN "nasdaq.json" ELSE filename

\* The observation of n with the latest date.
LaterObservation(n) ==
    CHOOSE x \in SeriesObservations(n) :
        \A y \in SeriesObservations(n) : DateLeq(y.date, x.date)

NoData(kind) == [kind |-> kind, batch |-> <<>>, ok |-> TRUE]

Batches(n, min_len) ==
    {b \in SeqsUpTo(SeriesObservations(n), MaxFetch) : Len(b) >= min_len}

\* What a source can do for the series of file n.  kinds is the set of results
\* without data the call site allows; min_len is 1 where a non-empty result
\* always gives a non-empty new_data.  For a series that is not followed the
\* batch is one fixed observation and the write does not fail.
FetchOutcomes(n, kinds, min_len) ==
    {NoData(k) : k \in kinds} \cup
    IF n = FollowedSeries
    THEN {[kind |-> "data", batch |-> b, ok |-> w] :
              b \in Batches(n, min_len), w \in BOOLEAN}
    ELSE IF n \in FredFiles /\ filename \in FredFiles
    THEN {[kind |-> "data", batch |-> <<LaterObservation(n)>>, ok |-> TRUE]}
    ELSE {}

\* Whether a write of file n may fail in this run.
WriteOutcomes(n, attempted) ==
    IF attempted /\ n \in Followed THEN BOOLEAN ELSE {TRUE}

InitMain ==
    /\ pc = "check_data_integrity"
    /\ filename \in TrackedFiles
    /\ \E f \in {Absent}
             \cup {FileOf(c) : c \in SeqsUpTo(SeriesObservations(filename), MaxFileLen)}
             \cup {[exists |-> TRUE, content |-> c, torn |-> TRUE] :
                       c \in SeqsUpTo(SeriesObservations(filename), 1)} :
         /\ files = [n \in DataFiles |-> IF n = filename THEN f ELSE Absent]
         /\ before = [n \in DataFiles |-> IF n = filename THEN f ELSE Absent]
    /\ \E y \in (IF filename \in {"bitcoin_price.json", "nasdaq.json", "nasdaq_index.json"}
                 THEN BOOLEAN ELSE {FALSE}),
          r \in (IF filename \in FredFiles THEN BOOLEAN ELSE {FALSE}),
          c \in (IF filename = "ism_manufacturing.json"
                 THEN {[exists |-> FALSE, rows |-> <<>>]}
                      \cup {[exists |-> TRUE, rows |-> rs] :
                                rs \in SeqsUpTo(CsvRowsOfRun, MaxIsmLen)}
                 ELSE {[exists |-> FALSE, rows |-> <<>>]}) :
         env = [has_yfinance |-> y, fred_configured |-> r, csv |-> c]
    /\ call = [step |-> "none", log |-> <<>>, write_failed |-> FALSE]
    /\ tmp_file = Absent
    /\ data = <<>>
    /\ result = EmptyPass
    /\ recleaned = <<>>
    /\ existing_data = <<>>
    /\ new_data = <<>>
    /\ updated_data = <<>>
    /\ price_data = <<>>
    /\ sorted_data = <<>>
    /\ rows = <<>>
    /\ yoy_data = <<>>

MainUnchanged ==
    /\ UNCHANGED <<filename, data, result, recleaned, existing_data, new_data,
                   updated_data, tmp_file, env, before>>
    /\ UNCHANGED yoyVars

\* One entry of call.log: the file name, the file as the function found it,
\* what the source did, the batch it supplied and whether write_json worked.
Entry(n, kind, batch, ok) ==
    [name |-> n, pre |-> files[n], kind |-> kind, batch |-> batch, ok |-> ok]

EntryOf(n, o) == Entry(n, o.kind, o.batch, o.ok)

Called(step, log) ==
    call' = [step |-> step, log |-> log,
             write_failed |-> call.write_failed \/ \E i \in 1..Len(log) : ~log[i].ok]

\* check_data_integrity, first and last in main.
CheckDataIntegrity ==
    /\ pc \in {"check_data_integrity", "check_data_integrity_again"}
    /\ \E r \in (IF \E n \in IntegrityFiles : files[n].torn THEN BOOLEAN ELSE {TRUE}) :
         files' = check_data_integrity(files, [n \in IntegrityFiles |-> r])
    /\ pc' = IF pc = "check_data_integrity" THEN "clean_all_data_files" ELSE "end"
    /\ UNCHANGED call
    /\ MainUnchanged

CleanAllDataFiles ==
    /\ pc = "clean_all_data_files"
    /\ \E ok \in WriteOutcomes(filename, filename \in CleanedFiles /\ files[filename].exists) :
         /\ files' = clean_all_data_files(files, [n \in DataFiles |-> n # filename \/ ok])
         /\ Called("clean_all_data_files", <<Entry(filename, "clean", <<>>, ok)>>)
    /\ pc' = "fix_m2_data"
    /\ MainUnchanged

FixM2Data ==
    /\ pc = "fix_m2_data"
    /\ \E o \in IF env.fred_configured
                THEN FetchOutcomes("global_m2.json", {"raised"}, 0)
                ELSE {[kind |-> "table", batch |-> <<>>, ok |-> w] :
                         w \in WriteOutcomes("global_m2.json", TRUE)} :
         /\ files' = [files EXCEPT !["global_m2.json"] = fix_m2_data(@, env, o)]
         /\ Called("fix_m2_data", <<EntryOf("global_m2.json", o)>>)
    /\ pc' = "update_bitcoin_price"
    /\ MainUnchanged

UpdateBitcoinPrice ==
    /\ pc = "update_bitcoin_price"
    /\ \E today \in Todays :
       \E o \in IF env.has_yfinance
                   /\ ~UpToDate(BitcoinStartDate(
                          clean_data_file(ReadItems(files["bitcoin_price.json"]),
                                          "bitcoin_price.json")), today)
                THEN FetchOutcomes("bitcoin_price.json", {"empty", "raised"}, 1)
                ELSE {NoData(IF env.has_yfinance THEN "up_to_date" ELSE "no_yfinance")} :
         /\ files' = [files EXCEPT !["bitcoin_price.json"] =
                          update_bitcoin_price(@, env, today, o)]
         /\ Called("update_bitcoin_price", <<EntryOf("bitcoin_price.json", o)>>)
    /\ pc' = "update_fred_data"
    /\ MainUnchanged

\* What FRED can do for the series of file n in update_fred_data.
FredOutcomes(n) ==
    IF env.fred_configured
    THEN FetchOutcomes(n, {"empty", "raised"}, 0)
    ELSE {NoData("not_configured")}

UpdateFredData ==
    /\ pc = "update_fred_data"
    /\ \E o1 \in FredOutcomes(series_mapping[1]) :
       \E o2 \in FredOutcomes(series_mapping[2]) :
       \E o3 \in FredOutcomes(series_mapping[3]) :
         LET os == (series_mapping[1] :> o1) @@ (series_mapping[2] :> o2)
                   @@ (series_mapping[3] :> o3)
         IN  /\ files' = update_fred_data(files, env, os)
             /\ Called("update_fred_data",
                       [i \in 1..Len(series_mapping) |->
                           EntryOf(series_mapping[i], os[series_mapping[i]])])
    /\ pc' = "update_ism_data"
    /\ MainUnchanged

\* The rows of the CSV file as the observations the merge makes of them.
CsvObservations(csv_rows) ==
    [i \in 1..Len(csv_rows) |->
        [date |-> FormattedDate(csv_rows[i].period), value |-> csv_rows[i].value]]

UpdateIsmData ==
    /\ pc = "update_ism_data"
    /\ \E csv_raises \in (IF env.csv.exists THEN BOOLEAN ELSE {FALSE}) :
       \E ok \in WriteOutcomes("ism_manufacturing.json", env.csv.exists /\ ~csv_raises) :
         /\ files' = [files EXCEPT !["ism_manufacturing.json"] =
                          update_ism_data(@, env, csv_raises, ok)]
         /\ Called("update_ism_data",
                   <<Entry("ism_manufacturing.json",
                           IF ~env.csv.exists THEN "no_csv"
                           ELSE IF csv_raises THEN "raised" ELSE "data",
                           IF env.csv.exists /\ ~csv_raises
                           THEN CsvObservations(env.csv.rows) ELSE <<>>,
                           ok)>>)
    /\ pc' = "get_nasdaq_data"
    /\ MainUnchanged

GetNasdaqData ==
    /\ pc = "get_nasdaq_data"
    /\ \E ok_copy \in WriteOutcomes("nasdaq.json",
                                    /\ files["nasdaq_index.json"].exists
                                    /\ ~files["nasdaq.json"].exists
                                    /\ ReadItems(files["nasdaq_index.json"]) # <<>>) :
       \E o \in IF env.has_yfinance
                THEN FetchOutcomes("nasdaq.json", {"empty", "raised"}, 1)
                ELSE {NoData("no_yfinance")} :
         /\ files' = get_nasdaq_data(files, env, ok_copy, o)
         /\ Called("get_nasdaq_data",
                   <<Entry("nasdaq_index.json", "copy", <<>>, ok_copy),
                     EntryOf("nasdaq.json", o)>>)
    /\ pc' = "generate_yoy_returns"
    /\ MainUnchanged

GenerateYoYReturns ==
    /\ pc = "generate_yoy_returns"
    /\ \E ok_bitcoin \in WriteOutcomes("bitcoin_yoy.json",
                                       ReadItems(files["bitcoin_price.json"]) # <<>>) :
       \E ok_nasdaq \in WriteOutcomes("nasdaq_yoy.json",
                                      ReadItems(files["nasdaq.json"]) # <<>>) :
         /\ files' = generate_yoy_returns(files, ok_bitcoin, ok_nasdaq)
         /\ Called("generate_yoy_returns",
                   <<Entry("bitcoin_price.json", "read", <<>>, ok_bitcoin),
                     Entry("nasdaq.json", "read", <<>>, ok_nasdaq)>>)
    /\ pc' = "check_data_integrity_again"
    /\ MainUnchanged

\* main: the functions in the order main calls them.
NextMain ==
    \/ CheckDataIntegrity
    \/ CleanAllDataFiles
    \/ FixM2Data
    \/ UpdateBitcoinPrice
    \/ UpdateFredData
    \/ UpdateIsmData
    \/ GetNasdaqData
    \/ GenerateYoYReturns

SpecMain == InitMain /\ [][NextMain]_vars

-----------------------------------------------------------------------------
(* Properties of clean_data_file and of the update path (Spec).            *)

UniqueDates(s) ==
    \A i, j \in 1..Len(s) : i # j => s[i].date # s[j].date

\* min <= v <= max for a file that value_ranges holds.
InDeclaredRange(v, name) ==
    value_ranges[name][1] <= v /\ v <= value_ranges[name][2]

WithinRange(s, name) ==
    name \in DOMAIN value_ranges =>
        \A i \in 1..Len(s) : InDeclaredRange(s[i].value, name)

StrictlyAscending(s) ==
    \A i \in 1..(Len(s) - 1) : DateLess(s[i].date, s[i + 1].date)

Elements(s) == {s[i] : i \in 1..Len(s)}

DatesOf(s) == {s[i].date : i \in 1..Len(s)}

\* The elements of s at the positions in I, in the order of s.
SelectAt(s, I) ==
    LET F[k \in 0..Len(s)] ==
            IF k = 0 THEN <<>>
            ELSE IF k \in I THEN Append(F[k - 1], s[k]) ELSE F[k - 1]
    IN  F[Len(s)]

\* C1: whatever the input (unsorted, repeated dates, values out of range) and
\* whatever the file name, a list returned by clean_data_file holds no two
\* observations with the same date, and for a file with a declared range every
\* returned value v has min <= v <= max.
C1_CleanUniqueAndInRange ==
    /\ pc = "cleaned" =>
         /\ UniqueDates(result.cleaned_data)
         /\ WithinRange(result.cleaned_data, filename)
    /\ pc = "merged" =>
         /\ UniqueDates(existing_data) /\ WithinRange(existing_data, filename)
         /\ UniqueDates(updated_data) /\ WithinRange(updated_data, filename)

\* C1 witness: a ranged file whose input repeats a date, holds an out-of-range
\* value and is not sorted, cleaned to a non-empty list.
C1_Witness ==
    /\ pc = "cleaned"
    /\ filename = "ism_manufacturing.json"
    /\ ~UniqueDates(data)
    /\ ~WithinRange(data, filename)
    /\ ~StrictlyAscending(data)
    /\ result.cleaned_data # <<>>

\* C2: the list returned by clean_data_file is strictly ascending by date for
\* any input order (the cleaning sorts what it keeps).
C2_CleanOutputAscending ==
    pc = "cleaned" => StrictlyAscending(result.cleaned_data)

\* C3: clean_data_file is idempotent: applied to its own output, with the same
\* file name (ranged or not), it returns that output unchanged.
C3_CleanIdempotent ==
    pc = "recleaned" => recleaned = result.cleaned_data

\* C3 witness: a second pass over the output of a first pass that removed
\* something and kept something.
C3_Witness ==
    /\ pc = "recleaned"
    /\ Len(result.cleaned_data) < Len(data)
    /\ Len(recleaned) >= 2

\* C4: with the persisted observations placed before the fetched ones, then the
\* stable sort by date and the cleaning, a persisted observation whose date a
\* fetched in-range observation shares stays in the result, and it is the only
\* observation of the result with that date.
C4_FirstOccurrenceWins ==
    pc = "merged" =>
        \A i \in 1..Len(existing_data) :
            (\E j \in 1..Len(new_data) :
                 /\ new_data[j].date = existing_data[i].date
                 /\ filename \in DOMAIN value_ranges =>
                        InDeclaredRange(new_data[j].value, filename))
            => /\ existing_data[i] \in Elements(updated_data)
               /\ \A k \in 1..Len(updated_data) :
                      updated_data[k].date = existing_data[i].date
                          => updated_data[k] = existing_data[i]

\* C4 witness: a persisted and a fetched observation of a ranged file share a
\* date, both in range, with different values; the result has the persisted one.
C4_Witness ==
    /\ pc = "merged"
    /\ filename = "ism_manufacturing.json"
    /\ \E i \in 1..Len(existing_data), j \in 1..Len(new_data) :
         /\ new_data[j].date = existing_data[i].date
         /\ new_data[j].value # existing_data[i].value
         /\ InDeclaredRange(new_data[j].value, filename)
         /\ existing_data[i] \in Elements(updated_data)
         /\ new_data[j] \notin Elements(updated_data)

\* r is the union of a and b sorted ascending by date, with nothing dropped.
IsSortedUnion(r, a, b) ==
    /\ StrictlyAscending(r)
    /\ Len(r) = Len(a) + Len(b)
    /\ Elements(r) = Elements(a) \cup Elements(b)

\* C5 as stated: for a clean series A and any batch B with no date of A, the
\* merged, sorted and cleaned list is the union of A and B sorted ascending,
\* nothing dropped.
C5_MergeKeepsEveryObservation ==
    (/\ pc = "merged"
     /\ StrictlyAscending(existing_data)
     /\ DatesOf(new_data) \cap DatesOf(existing_data) = {})
    => IsSortedUnion(updated_data, existing_data, new_data)

\* C5 amended: the same, for a batch B that itself repeats no date and holds
\* no value outside the declared range of the series.
C5_MergeKeepsCleanBatch ==
    (/\ pc = "merged"
     /\ StrictlyAscending(existing_data)
     /\ DatesOf(new_data) \cap DatesOf(existing_data) = {}
     /\ UniqueDates(new_data)
     /\ WithinRange(new_data, filename))
    => IsSortedUnion(updated_data, existing_data, new_data)

\* C5 witness: a non-empty clean series and an unsorted two-element batch of
\* other dates, in range, one of them earlier than a persisted date.
C5_Witness ==
    /\ pc = "merged"
    /\ filename = "ism_manufacturing.json"
    /\ existing_data # <<>>
    /\ StrictlyAscending(existing_data)
    /\ DatesOf(new_data) \cap DatesOf(existing_data) = {}
    /\ UniqueDates(new_data)
    /\ WithinRange(new_data, filename)
    /\ Len(new_data) = 2
    /\ DateLess(new_data[2].date, new_data[1].date)
    /\ DateLess(new_data[2].date, existing_data[1].date)
    /\ Len(updated_data) = 3

\* The date of data[i] was kept earlier in the pass: an earlier observation of
\* that date is in range.
KeptEarlier(i) ==
    \E j \in 1..(i - 1) :
        /\ data[j].date = data[i].date
        /\ InDeclaredRange(data[j].value, filename)

\* C6: for a file with a declared range (min, max), the pass removes an
\* observation as an outlier only when its value is < min or > max, and every
\* observation with min <= value <= max whose date was not kept earlier is
\* kept: the returned list is exactly those observations, in input order, and
\* the reported outliers are exactly the out-of-range observations whose date
\* was not kept earlier.
C6_RangeFilterStrictAndComplete ==
    (pc = "cleaned" /\ filename \in DOMAIN value_ranges) =>
        /\ result.cleaned_data =
               SelectAt(data, {i \in 1..Len(data) :
                   InDeclaredRange(data[i].value, filename) /\ ~KeptEarlier(i)})
        /\ result.printed =
               SelectAt(data, {i \in 1..Len(data) :
                   ~InDeclaredRange(data[i].value, filename) /\ ~KeptEarlier(i)})
        /\ result.outliers_removed = Len(result.printed)
        /\ result.duplicates_removed =
               Cardinality({i \in 1..Len(data) : KeptEarlier(i)})

\* C6 witness: ism_manufacturing with 150, 0 and 100 on three dates: 150 is
\* reported and dropped, 0 and 100 are kept.
C6_Witness ==
    /\ pc = "cleaned"
    /\ filename = "ism_manufacturing.json"
    /\ data = <<[date |-> <<2024, 1, 1>>, value |-> 150],
                [date |-> <<2024, 2, 1>>, value |-> 0],
                [date |-> <<2024, 3, 1>>, value |-> 100]>>
    /\ result.cleaned_data = <<[date |-> <<2024, 2, 1>>, value |-> 0],
                               [date |-> <<2024, 3, 1>>, value |-> 100]>>
    /\ result.printed = <<[date |-> <<2024, 1, 1>>, value |-> 150]>>

-----------------------------------------------------------------------------
(* Properties of calculate_yoy_returns (SpecYoY).                          *)

\* Days between the date at j and the target of i (the date at i less one
\* calendar year).
TargetDist(j, i) ==
    DateDiff(sorted_data[j].date, SubtractYear(sorted_data[i].date))

\* The earlier observation nearest to the target of i; of several at the same
\* distance, the one of lowest index.  Defined for i > 1.
Nearest(i) ==
    CHOOSE j \in 1..(i - 1) :
        \A k \in 1..(i - 1) :
            \/ TargetDist(j, i) < TargetDist(k, i)
            \/ TargetDist(j, i) = TargetDist(k, i) /\ j <= k

\* C7: an entry is emitted for the observation at sorted index i exactly when
\* an earlier observation exists, the earlier observation nearest to the
\* target date is at most 45 days from it, and that observation's value is
\* > 0; a nearest anchor of value <= 0 emits nothing, whatever else lies in
\* the window.
C7_EmittedIffAnchorInWindowAndPositive ==
    pc = "done" =>
        /\ Len(rows) = Len(sorted_data)
        /\ \A i \in 1..Len(sorted_data) :
               rows[i].emitted <=>
                   /\ i > 1
                   /\ TargetDist(Nearest(i), i) <= 45
                   /\ sorted_data[Nearest(i)].value > 0
        /\ Len(yoy_data) = Cardinality({i \in 1..Len(rows) : rows[i].emitted})

\* C7 witness: the nearest anchor (17 days from the target) has value 0,
\* another earlier observation exactly 45 days from the target has a positive
\* value, and nothing is emitted for the current observation.
C7_Witness ==
    /\ pc = "done"
    /\ Len(sorted_data) = 3
    /\ TargetDist(2, 3) = 17 /\ sorted_data[2].value = 0
    /\ TargetDist(1, 3) = 45 /\ sorted_data[1].value > 0
    /\ ~rows[3].emitted
    /\ yoy_data = <<>>

\* C8: the anchor chosen for the observation at sorted index i is at an index
\* strictly less than i, so it is never dated later than that observation,
\* whatever the order of price_data.
C8_AnchorStrictlyEarlier ==
    pc = "done" =>
        \A i \in 1..Len(rows) :
            rows[i].closest_idx # NoIdx =>
                /\ rows[i].closest_idx \in 1..(i - 1)
                /\ DateLeq(sorted_data[rows[i].closest_idx].date,
                           sorted_data[i].date)

\* C8 witness: price_data given latest first; an entry is emitted for the
\* latest observation from an anchor that price_data holds after it.
C8_Witness ==
    /\ pc = "done"
    /\ Len(price_data) = 3
    /\ DateLess(price_data[3].date, price_data[2].date)
    /\ DateLess(price_data[2].date, price_data[1].date)
    /\ rows[3].emitted
    /\ sorted_data[3] = price_data[1]
    /\ sorted_data[rows[3].closest_idx] = price_data[3]

\* C9: of the earlier observations at the minimal distance from the target
\* date, the anchor is the one of lowest index, hence of the earliest date.
C9_TieTakesEarlierDate ==
    pc = "done" =>
        \A i \in 1..Len(rows) :
            rows[i].closest_idx # NoIdx =>
                /\ rows[i].min_diff = TargetDist(rows[i].closest_idx, i)
                /\ \A j \in 1..(i - 1) :
                       /\ TargetDist(j, i) >= rows[i].min_diff
                       /\ TargetDist(j, i) = rows[i].min_diff =>
                              /\ rows[i].closest_idx <= j
                              /\ DateLeq(sorted_data[rows[i].closest_idx].date,
                                         sorted_data[j].date)

\* C9 witness: two earlier observations 14 days from the target, one before it
\* and one after it, with different values; the one before it is the anchor
\* and the entry is computed from its value.
C9_Witness ==
    /\ pc = "done"
    /\ Len(sorted_data) = 3
    /\ sorted_data[1].date = <<2023, 1, 1>> /\ sorted_data[1].value = 100
    /\ sorted_data[2].date = <<2023, 1, 29>> /\ sorted_data[2].value = 120
    /\ sorted_data[3].date = <<2024, 1, 15>> /\ sorted_data[3].value = 120
    /\ TargetDist(1, 3) = 14 /\ TargetDist(2, 3) = 14
    /\ rows[3].closest_idx = 1
    /\ rows[3].entry = <<[date |-> <<2024, 1, 15>>, value |-> 2000]>>

\* v, in hundredths, is n / d rounded to the nearest, a tie to the even (d > 0).
IsRounded(v, n, d) ==
    LET e == 2 * (v * d - n)
        a == IF e < 0 THEN -e ELSE e
    IN  a <= d /\ (a = d => v % 2 = 0)

\* C10: an entry emitted for index i has the date of observation i and the
\* value ((value at i / anchor value) - 1) * 100 rounded to 2 decimals, the
\* anchor being the one chosen for i; 2023-01-01: 100 and 2024-01-15: 120
\* give exactly {2024-01-15, 20.0}, and a further point at 2024-03-01, whose
\* nearest earlier point is 59 days from its target, adds nothing.
C10_EntryDateAndValue ==
    pc = "done" =>
        /\ yoy_data = RowEntries(rows)
        /\ \A i \in 1..Len(rows) :
               /\ Len(rows[i].entry) = (IF rows[i].emitted THEN 1 ELSE 0)
               /\ rows[i].emitted =>
                      /\ rows[i].entry[1].date = sorted_data[i].date
                      /\ IsRounded(rows[i].entry[1].value,
                                   (sorted_data[i].value
                                      - sorted_data[rows[i].closest_idx].value) * 10000,
                                   sorted_data[rows[i].closest_idx].value)
        /\ (/\ Len(sorted_data) \in {2, 3}
            /\ sorted_data[1] = [date |-> <<2023, 1, 1>>, value |-> 100]
            /\ sorted_data[2] = [date |-> <<2024, 1, 15>>, value |-> 120]
            /\ Len(sorted_data) = 3 => sorted_data[3].date = <<2024, 3, 1>>)
           => yoy_data = <<[date |-> <<2024, 1, 15>>, value |-> 2000]>>

\* C10 witness: the three points of the example, given out of order: one
\* entry, for 2024-01-15, and the nearest earlier point of 2024-03-01 is 59
\* days from its target.
C10_Witness ==
    /\ pc = "done"
    /\ price_data = <<[date |-> <<2024, 3, 1>>, value |-> 120],
                      [date |-> <<2023, 1, 1>>, value |-> 100],
                      [date |-> <<2024, 1, 15>>, value |-> 120]>>
    /\ TargetDist(1, 2) = 14
    /\ TargetDist(Nearest(3), 3) = 59
    /\ yoy_data = <<[date |-> <<2024, 1, 15>>, value |-> 2000]>>

-----------------------------------------------------------------------------
(* Further properties of calculate_yoy_returns (SpecYoY).                  *)

\* The number of positions of s whose date is d.
CountDate(s, d) == Cardinality({i \in 1..Len(s) : s[i].date = d})

\* C11: the list returned by calculate_yoy_returns is in ascending date order,
\* holds at most one entry per input observation (per date, no more entries
\* than the input has observations of that date), every entry's date is the
\* date of an input observation, and for an input with unique dates the entry
\* dates are strictly ascending.
C11_YoYOrderedOnePerObservation ==
    pc = "done" =>
        /\ \A k \in 1..(Len(yoy_data) - 1) :
               DateLeq(yoy_data[k].date, yoy_data[k + 1].date)
        /\ Len(yoy_data) <= Len(price_data)
        /\ \A k \in 1..Len(yoy_data) :
               /\ yoy_data[k].date \in DatesOf(price_data)
               /\ CountDate(yoy_data, yoy_data[k].date)
                      <= CountDate(price_data, yoy_data[k].date)
        /\ UniqueDates(price_data) => StrictlyAscending(yoy_data)

\* C11 witness: an input of unique dates given latest first, from which two
\* entries are returned, the earlier date first.
C11_Witness ==
    /\ pc = "done"
    /\ Len(price_data) = 3
    /\ UniqueDates(price_data)
    /\ DateLess(price_data[3].date, price_data[2].date)
    /\ DateLess(price_data[2].date, price_data[1].date)
    /\ Len(yoy_data) = 2
    /\ yoy_data[1].date = price_data[2].date
    /\ yoy_data[2].date = price_data[1].date

-----------------------------------------------------------------------------
(* A further property of clean_data_file (Spec).                           *)

\* C18: an outlier does not reserve its date.  For a file with a declared
\* range, when the first observation of a date is out of range and a later
\* observation of that date is the first one in range, the former is reported
\* as an outlier and dropped and the latter is kept: the observation kept for
\* a date is its first in-range occurrence.
C18_OutlierDoesNotReserveDate ==
    (pc = "cleaned" /\ filename \in DOMAIN value_ranges) =>
        \A i, j \in 1..Len(data) :
            (/\ i < j
             /\ data[i].date = data[j].date
             /\ \A h \in 1..(j - 1) :
                    data[h].date = data[j].date
                        => ~InDeclaredRange(data[h].value, filename)
             /\ InDeclaredRange(data[j].value, filename))
            => /\ data[j] \in Elements(result.cleaned_data)
               /\ data[i] \notin Elements(result.cleaned_data)
               /\ data[i] \in Elements(result.printed)
               /\ \A k \in 1..Len(result.cleaned_data) :
                      result.cleaned_data[k].date = data[j].date
                          => result.cleaned_data[k] = data[j]

\* C18 witness: 150 then 50 on the same date for ism_manufacturing: 150 is
\* reported, 50 is kept.
C18_Witness ==
    /\ pc = "cleaned"
    /\ filename = "ism_manufacturing.json"
    /\ data = <<[date |-> <<2024, 1, 1>>, value |-> 150],
                [date |-> <<2024, 1, 1>>, value |-> 50]>>
    /\ result.cleaned_data = <<[date |-> <<2024, 1, 1>>, value |-> 50]>>
    /\ result.printed = <<[date |-> <<2024, 1, 1>>, value |-> 150]>>
    /\ result.duplicates_removed = 0

-----------------------------------------------------------------------------
(* Properties of update_ism_manufacturing_from_csv (SpecIsm).              *)

\* C17: after update_ism_manufacturing_from_csv the written JSON has no two
\* entries with the same date, for any JSON content and any CSV rows.
C17_StandaloneIsmNoDuplicates ==
    pc = "done" => UniqueDates(files[filename].content)

-----------------------------------------------------------------------------
(* Properties of a run of main (SpecMain).                                 *)

Parseable(f) == f.exists /\ ~f.torn

FirstOccurrence(s, i) == \A j \in 1..(i - 1) : s[j].date # s[i].date

\* The observations of file n before the run that are in range and the first
\* of their date.
Protected(n) ==
    IF Parseable(before[n])
    THEN {before[n].content[i] : i \in
             {i \in 1..Len(before[n].content) :
                 /\ FirstOccurrence(before[n].content, i)
                 /\ InDeclaredRange(before[n].content[i].value, n)}}
    ELSE {}

CsvMonths == {FormattedDate(env.csv.rows[k].period) : k \in 1..Len(env.csv.rows)}

InRangeAt(items, n, d) ==
    {i \in 1..Len(items) : items[i].date = d /\ InDeclaredRange(items[i].value, n)}

\* The value file n holds for date d: that of the first such position.
PersistedValue(items, n, d) ==
    items[CHOOSE i \in InRangeAt(items, n, d) :
              \A j \in InRangeAt(items, n, d) : i <= j].value

\* For the call logged as e: every incoming date that the file held with an
\* in-range value still has that value in the file.
PersistedWins(e) ==
    \A k \in 1..Len(e.batch) :
        InRangeAt(ReadItems(e.pre), e.name, e.batch[k].date) # {}
        => /\ InRangeAt(files[e.name].content, e.name, e.batch[k].date) # {}
           /\ PersistedValue(files[e.name].content, e.name, e.batch[k].date)
                = PersistedValue(ReadItems(e.pre), e.name, e.batch[k].date)

\* C14 as stated: after update_bitcoin_price, update_fred_data,
\* get_nasdaq_data and update_ism_data, a date that came in and was already
\* persisted with an in-range value keeps the persisted value.
C14_PersistedValueWinsEverywhere ==
    call.step \in {"update_bitcoin_price", "update_fred_data", "get_nasdaq_data",
                   "update_ism_data"}
    => \A i \in 1..Len(call.log) :
           call.log[i].kind = "data" => PersistedWins(call.log[i])

\* C14, amended: the same after update_bitcoin_price, update_fred_data and
\* get_nasdaq_data only.
C14_PersistedValueWinsInFetchUpdates ==
    call.step \in {"update_bitcoin_price", "update_fred_data", "get_nasdaq_data"}
    => \A i \in 1..Len(call.log) :
           call.log[i].kind = "data" => PersistedWins(call.log[i])

\* C14 witness: yfinance returned for bitcoin_price.json an in-range value for
\* a date the file held with another in-range value; the update was written
\* and the file holds the earlier value for that date, not the fetched one.
C14_Witness ==
    /\ call.step = "update_bitcoin_price"
    /\ pc = "update_fred_data"
    /\ call.log[1].kind = "data"
    /\ call.log[1].ok
    /\ LET e == call.log[1]
           d == e.batch[1].date
       IN  /\ InRangeAt(ReadItems(e.pre), e.name, d) # {}
           /\ InDeclaredRange(e.batch[1].value, e.name)
           /\ e.batch[1].value # PersistedValue(ReadItems(e.pre), e.name, d)
           /\ files[e.name].content # ReadItems(e.pre)
           /\ PersistedValue(files[e.name].content, e.name, d)
                = PersistedValue(ReadItems(e.pre), e.name, d)
           /\ e.batch[1] \notin Elements(files[e.name].content)

\* C15: in a run of main, also one in which no write fails, the list that
\* generate_yoy_returns reads from bitcoin_price.json and from nasdaq.json has
\* no two observations of one date and no value outside the series' range.
C15_PriceDataCleanBeforeYoY ==
    (call.step = "generate_yoy_returns" /\ ~call.write_failed)
    => \A i \in 1..Len(call.log) :
           /\ UniqueDates(ReadItems(call.log[i].pre))
           /\ WithinRange(ReadItems(call.log[i].pre), call.log[i].name)

\* C16: after a run of main in which no write fails, every file that
\* clean_all_data_files covers and that exists has no two observations of one
\* date and is sorted ascending by date.
C16_SeriesInvariantAfterRun ==
    (pc = "end" /\ ~call.write_failed)
    => \A n \in CleanedFiles :
           files[n].exists => /\ UniqueDates(files[n].content)
                              /\ StrictlyAscending(files[n].content)

\* The list the logged call would write for a non-empty result: the cleaned
\* existing data combined with the batch, sorted and cleaned.
MergedFile(e) ==
    FileOf(MergeSortClean(clean_data_file(ReadItems(e.pre), e.name), e.batch, e.name))

\* C19: after update_bitcoin_price and update_fred_data, the file of a series
\* whose fetch returned nothing or raised, or (Bitcoin) whose start date was
\* not before today, is exactly the file the function found.
C19_NoDataLeavesFileUntouched ==
    call.step \in {"update_bitcoin_price", "update_fred_data"}
    => \A i \in 1..Len(call.log) :
           call.log[i].kind \in {"empty", "raised", "up_to_date"}
           => files[call.log[i].name] = call.log[i].pre

\* C19 witness: update_fred_data found a file that cleaning would change, FRED
\* returned nothing for it and raised for another series, and the file is as
\* it was.
C19_Witness ==
    /\ call.step = "update_fred_data"
    /\ pc = "update_ism_data"
    /\ \E i, j \in 1..Len(call.log) :
         /\ call.log[i].name = filename
         /\ call.log[i].kind = "empty"
         /\ call.log[j].kind = "raised"
         /\ call.log[i].pre.exists
         /\ clean_data_file(ReadItems(call.log[i].pre), filename)
              # ReadItems(call.log[i].pre)
         /\ files[filename] = call.log[i].pre

\* C20: after update_fred_data with FRED configured, every series of the
\* mapping whose fetch gave data and whose write worked holds the merged,
\* sorted and cleaned list, whatever FRED did for the other series.
C20_FredFailuresAreIsolated ==
    (call.step = "update_fred_data" /\ env.fred_configured)
    => /\ Len(call.log) = Len(series_mapping)
       /\ \A i \in 1..Len(call.log) :
            /\ call.log[i].name = series_mapping[i]
            /\ (call.log[i].kind = "data" /\ call.log[i].ok)
                   => files[call.log[i].name] = MergedFile(call.log[i])

\* C20 witness: FRED raised for the first series and returned nothing for the
\* second, and the third, whose fetch gave data, was merged and written.
C20_Witness ==
    /\ call.step = "update_fred_data"
    /\ pc = "update_ism_data"
    /\ env.fred_configured
    /\ call.log[1].kind = "raised"
    /\ call.log[2].kind = "empty"
    /\ call.log[3].kind = "data"
    /\ call.log[3].ok
    /\ call.log[3].batch # <<>>
    /\ call.log[3].pre.exists
    /\ files[call.log[3].name] = MergedFile(call.log[3])
    /\ files[call.log[3].name] # call.log[3].pre

=============================================================================
